---------------------------- MODULE Spec2Model ----------------------------
(***************************************************************************)
(* Effect-chain management and signal routing of the step sequencer.       *)
(*                                                                         *)
(* The audio graph is modelled at the level the engine manipulates it:     *)
(* nodes with an identity (an index into audioNodes) and directed          *)
(* connections between them.  TrackEffect objects live in a heap           *)
(* (objects), because addEffect stores the caller's object by reference.   *)
(* Numeric parameters are fixed-point, in hundredths (0.3 is 30).          *)
(***************************************************************************)
EXTENDS Integers, Sequences, FiniteSets, TLC

\* ------------------------------------------------------------------ bounds
MaxTrack == 1        \* track indices 0..MaxTrack are exercised
MaxEffects == 2      \* TrackEffect objects created over the engine's lifetime
MaxNow == 1          \* Date.now() takes the values 0..MaxNow
MaxInitCalls == 2    \* initialize() calls awaiting Tone.start at one time
MaxNodes == 6        \* dispose() is exercised while at most this many nodes exist
MaxResume == 2       \* togglePlay calls awaiting resumeContext() at one time
GridShort == 2       \* steps of the short grid (16 in the source)
GridLong == 4        \* steps of the long grid and of the pattern rows (32)

Tracks == 0..MaxTrack
NoTrack == -1        \* playSound called without a trackIndex

\* ------------------------------------------------------------- data model
EffectType == {"reverb", "delay", "distortion", "filter"}

\* a value outside the EffectType union, reaching createToneEffect's default
UnknownType == "chorus"

DEFAULT_EFFECT_PARAMS ==
  [reverb     |-> [roomSize |-> 40, decay |-> 150, wet |-> 30],
   delay      |-> [time |-> 25, feedback |-> 30, wet |-> 30],
   distortion |-> [distortion |-> 40, oversample |-> "2x", wet |-> 50],
   filter     |-> [frequency |-> 100000, type |-> "lowpass",
                   rolloff |-> -12, Q |-> 100, wet |-> 100]]

\* Tone.getDestination(): the shared output sink
Destination == 0

VARIABLES
  effectChains,   \* EffectsEngine.effectChains: trackIndex -> EffectChain
  objects,        \* heap of TrackEffect objects, addressed by reference
  audioNodes,     \* every Tone node constructed so far, addressed by index
  connections,    \* the live connection graph: set of <<source, target>>
  builtFor,       \* history: the TrackEffect each node was constructed from
  isInitialized,  \* EffectsEngine.isInitialized
  initCalls,      \* initialize() calls suspended at `await Tone.start()`
  backendFailed,  \* the playback side's record that the backend did not start
  now,            \* Date.now()
  playback,       \* targets of the gain node of the trigger just issued
  lastOp,         \* the operation performed by the latest step
  trackEffects,   \* StepSequencer state: the effects list the UI holds per track
  isPlaying,      \* StepSequencer state: isPlaying
  currentStep,    \* StepSequencer state: currentStep
  gridSize,       \* StepSequencer state: gridSize
  pattern,        \* StepSequencer state: pattern (read through patternRef)
  sounds,         \* StepSequencer state: the sound selected per track
  uiInitialized,  \* StepSequencer state: isInitialized
  resumePending,  \* togglePlay calls suspended at `await resumeContext()`
  intervalSounds, \* the sounds array the live interval callback closed over
  fired           \* the <<track, sound>> triggers issued by the latest tick

\* the state of the StepSequencer component
uiVars == <<trackEffects, isPlaying, currentStep, gridSize, pattern, sounds,
            uiInitialized, resumePending, intervalSounds, fired>>

vars == <<effectChains, objects, audioNodes, connections, builtFor,
          isInitialized,
          initCalls, backendFailed, now, playback, lastOp, uiVars>>

\* The engine's mutable state as one value, so that operations compose.
Engine ==
  [chains |-> effectChains, objects |-> objects,
   nodes |-> audioNodes, conn |-> connections, builtFor |-> builtFor]

Range(s) == {s[i] : i \in 1..Len(s)}

\* Array.prototype.findIndex / find by id: first match, 0 when absent
RECURSIVE FindFrom(_, _, _, _)
FindFrom(e, refs, id, i) ==
  IF i > Len(refs) THEN 0
  ELSE IF e.objects[refs[i]].id = id THEN i
  ELSE FindFrom(e, refs, id, i + 1)

findIndex(e, refs, id) == FindFrom(e, refs, id, 1)

\* Array.prototype.splice(index, 1)
splice(s, index) ==
  [i \in 1..(Len(s) - 1) |-> IF i < index THEN s[i] ELSE s[i + 1]]

\* { ...a, ...b }
spread(a, b) ==
  [k \in (DOMAIN a) \cup (DOMAIN b) |-> IF k \in DOMAIN b THEN b[k] ELSE a[k]]

\* new Tone.Gain(1)
NewGain == [kind |-> "gain", settings |-> [gain |-> 100], disposed |-> FALSE]

\* node.connect(target)
connect(e, source, target) ==
  [e EXCEPT !.conn = @ \cup {<<source, target>>}]

\* node.disconnect(): drops every outgoing connection of the node
disconnect(e, source) ==
  [e EXCEPT !.conn = {c \in @ : c[1] # source}]

\* node.dispose(): releases the node's parameters and outgoing connections
dispose(e, n) ==
  [disconnect(e, n) EXCEPT !.nodes[n].disposed = TRUE,
                           !.nodes[n].settings = <<>>]

\* ------------------------------------------------------------ the engine
createEffectChain(e, trackIndex) ==
  LET input  == Len(e.nodes) + 1
      output == Len(e.nodes) + 2
      e1 == [e EXCEPT !.nodes = @ \o <<NewGain, NewGain>>,
                      !.builtFor = @ \o <<0, 0>>]
      e2 == connect(e1, input, output)
      e3 == connect(e2, output, Destination)
      chain == [trackIndex |-> trackIndex, effects |-> <<>>,
                toneEffects |-> <<>>, input |-> input, output |-> output]
  IN [e3 EXCEPT !.chains = [t \in (DOMAIN @) \cup {trackIndex} |->
                              IF t = trackIndex THEN chain ELSE @[t]]]

\* a lookup that builds a new chain at every reference
getEffectChain_alwaysCreate(e, trackIndex) == createEffectChain(e, trackIndex)

getEffectChain(e, trackIndex) ==
  IF trackIndex \in DOMAIN e.chains THEN e
  ELSE createEffectChain(e, trackIndex)

\* the node a constructor call yields, or NullNode for an unsupported type
NullNode == [kind |-> "null"]

createToneEffect(effect) ==
  CASE effect.type = "reverb" ->
         [kind |-> "Freeverb", disposed |-> FALSE,
          settings |-> [roomSize |-> effect.params.roomSize,
                        dampening |-> effect.params.decay * 3000,
                        wet |-> effect.params.wet]]
    [] effect.type = "delay" ->
         [kind |-> "FeedbackDelay", disposed |-> FALSE,
          settings |-> [delayTime |-> effect.params.time,
                        feedback |-> effect.params.feedback,
                        wet |-> effect.params.wet]]
    [] effect.type = "distortion" ->
         [kind |-> "Distortion", disposed |-> FALSE,
          settings |-> [distortion |-> effect.params.distortion,
                        oversample |-> effect.params.oversample,
                        wet |-> effect.params.wet]]
    [] effect.type = "filter" ->
         [kind |-> "Filter", disposed |-> FALSE,
          settings |-> [frequency |-> effect.params.frequency,
                        type |-> effect.params.type,
                        rolloff |-> effect.params.rolloff,
                        Q |-> effect.params.Q]]
    [] OTHER -> NullNode

\* chain.toneEffects.filter((_, index) => chain.effects[index].enabled)
RECURSIVE EnabledFrom(_, _, _)
EnabledFrom(e, chain, i) ==
  IF i > Len(chain.toneEffects) THEN <<>>
  ELSE (IF e.objects[chain.effects[i]].enabled
        THEN <<chain.toneEffects[i]>> ELSE <<>>)
       \o EnabledFrom(e, chain, i + 1)

enabledEffects(e, chain) == EnabledFrom(e, chain, 1)

\* toneEffects.forEach(effect => effect.disconnect())
RECURSIVE DisconnectAll(_, _, _)
DisconnectAll(e, nodeRefs, i) ==
  IF i > Len(nodeRefs) THEN e
  ELSE DisconnectAll(disconnect(e, nodeRefs[i]), nodeRefs, i + 1)

\* for (i = 0; i < enabled.length - 1; i++) enabled[i].connect(enabled[i+1])
RECURSIVE ConnectSeries(_, _, _)
ConnectSeries(e, en, i) ==
  IF i >= Len(en) THEN e
  ELSE ConnectSeries(connect(e, en[i], en[i + 1]), en, i + 1)

\* a rebuild that disconnects the input but not the processing nodes
rebuildEffectChain_keepNodeEdges(e, trackIndex) ==
  LET chain == e.chains[trackIndex]
      e2 == disconnect(e, chain.input)
      en == enabledEffects(e2, chain)
  IN IF Len(en) = 0
     THEN connect(e2, chain.input, chain.output)
     ELSE LET e3 == connect(e2, chain.input, en[1])
              e4 == ConnectSeries(e3, en, 1)
          IN connect(e4, en[Len(en)], chain.output)

\* a rebuild whose "disconnect everything" includes the output node
rebuildEffectChain_disconnectOutput(e, trackIndex) ==
  LET chain == e.chains[trackIndex]
      e1 == disconnect(disconnect(e, chain.input), chain.output)
      e2 == DisconnectAll(e1, chain.toneEffects, 1)
      en == enabledEffects(e2, chain)
  IN IF Len(en) = 0
     THEN connect(e2, chain.input, chain.output)
     ELSE LET e3 == connect(e2, chain.input, en[1])
              e4 == ConnectSeries(e3, en, 1)
          IN connect(e4, en[Len(en)], chain.output)

\* a rebuild left after its first connection: everything disconnected, the
\* input wired to the first enabled node, nothing wired behind it
rebuildEffectChain_halfway(e, trackIndex) ==
  LET chain == e.chains[trackIndex]
      e1 == disconnect(e, chain.input)
      e2 == DisconnectAll(e1, chain.toneEffects, 1)
      en == enabledEffects(e2, chain)
  IN IF Len(en) = 0
     THEN connect(e2, chain.input, chain.output)
     ELSE connect(e2, chain.input, en[1])

rebuildEffectChain(e, trackIndex) ==
  LET chain == e.chains[trackIndex]
      e1 == disconnect(e, chain.input)
      e2 == DisconnectAll(e1, chain.toneEffects, 1)
      en == enabledEffects(e2, chain)
  IN IF Len(en) = 0
     THEN connect(e2, chain.input, chain.output)
     ELSE LET e3 == connect(e2, chain.input, en[1])
              e4 == ConnectSeries(e3, en, 1)
          IN connect(e4, en[Len(en)], chain.output)

\* an add that records the entry before it tests the constructed node
addEffect_pushFirst(e, trackIndex, ref) ==
  LET e0 == getEffectChain(e, trackIndex)
      e1 == [e0 EXCEPT !.chains[trackIndex].effects = Append(@, ref)]
      toneEffect == createToneEffect(e1.objects[ref])
  IN IF toneEffect = NullNode THEN e1
     ELSE LET n  == Len(e1.nodes) + 1
              e2 == [e1 EXCEPT !.nodes = Append(@, toneEffect),
                               !.builtFor = Append(@, ref),
                               !.chains[trackIndex].toneEffects = Append(@, n)]
          IN rebuildEffectChain(e2, trackIndex)

\* an add that puts the entry at the front of both arrays (unshift)
addEffect_unshift(e, trackIndex, ref) ==
  LET e1 == getEffectChain(e, trackIndex)
      toneEffect == createToneEffect(e1.objects[ref])
  IN IF toneEffect = NullNode THEN e1
     ELSE LET n  == Len(e1.nodes) + 1
              e2 == [e1 EXCEPT !.nodes = Append(@, toneEffect),
                               !.builtFor = Append(@, ref),
                               !.chains[trackIndex].effects = <<ref>> \o @,
                               !.chains[trackIndex].toneEffects = <<n>> \o @]
          IN rebuildEffectChain(e2, trackIndex)

\* addEffect(trackIndex, effect) where effect is the object at reference ref
addEffect(e, trackIndex, ref) ==
  LET e1 == getEffectChain(e, trackIndex)
      toneEffect == createToneEffect(e1.objects[ref])
  IN IF toneEffect = NullNode THEN e1
     ELSE LET n  == Len(e1.nodes) + 1
              e2 == [e1 EXCEPT !.nodes = Append(@, toneEffect),
                               !.builtFor = Append(@, ref),
                               !.chains[trackIndex].effects = Append(@, ref),
                               !.chains[trackIndex].toneEffects = Append(@, n)]
          IN rebuildEffectChain(e2, trackIndex)

\* a remove that drops the first node instead of the node at effectIndex
removeEffect_misaligned(e, trackIndex, effectId) ==
  LET e1 == getEffectChain(e, trackIndex)
      chain == e1.chains[trackIndex]
      effectIndex == findIndex(e1, chain.effects, effectId)
  IN IF effectIndex = 0 THEN e1
     ELSE LET e2 == dispose(e1, chain.toneEffects[1])
              e3 == [e2 EXCEPT
                       !.chains[trackIndex].effects = splice(@, effectIndex),
                       !.chains[trackIndex].toneEffects = splice(@, 1)]
          IN rebuildEffectChain(e3, trackIndex)

\* a remove without the -1 test: splice(-1, 1) drops the last element
removeEffect_noCheck(e, trackIndex, effectId) ==
  LET e1 == getEffectChain(e, trackIndex)
      chain == e1.chains[trackIndex]
      found == findIndex(e1, chain.effects, effectId)
      effectIndex == IF found = 0 THEN Len(chain.effects) ELSE found
  IN IF effectIndex = 0 THEN rebuildEffectChain(e1, trackIndex)
     ELSE LET e2 == IF found = 0 THEN e1
                    ELSE dispose(e1, chain.toneEffects[effectIndex])
              e3 == [e2 EXCEPT
                       !.chains[trackIndex].effects = splice(@, effectIndex),
                       !.chains[trackIndex].toneEffects = splice(@, effectIndex)]
          IN rebuildEffectChain(e3, trackIndex)

\* a remove that drops the node from the arrays without disposing it
removeEffect_noDispose(e, trackIndex, effectId) ==
  LET e1 == getEffectChain(e, trackIndex)
      chain == e1.chains[trackIndex]
      effectIndex == findIndex(e1, chain.effects, effectId)
  IN IF effectIndex = 0 THEN e1
     ELSE LET e3 == [e1 EXCEPT
                       !.chains[trackIndex].effects = splice(@, effectIndex),
                       !.chains[trackIndex].toneEffects = splice(@, effectIndex)]
          IN rebuildEffectChain(e3, trackIndex)

\* a remove that disposes and splices but does not rebuild the connections
removeEffect_noRebuild(e, trackIndex, effectId) ==
  LET e1 == getEffectChain(e, trackIndex)
      chain == e1.chains[trackIndex]
      effectIndex == findIndex(e1, chain.effects, effectId)
  IN IF effectIndex = 0 THEN e1
     ELSE LET e2 == dispose(e1, chain.toneEffects[effectIndex])
          IN [e2 EXCEPT
                !.chains[trackIndex].effects = splice(@, effectIndex),
                !.chains[trackIndex].toneEffects = splice(@, effectIndex)]

\* removeEffect(trackIndex, effectId)
removeEffect(e, trackIndex, effectId) ==
  LET e1 == getEffectChain(e, trackIndex)
      chain == e1.chains[trackIndex]
      effectIndex == findIndex(e1, chain.effects, effectId)
  IN IF effectIndex = 0 THEN e1
     ELSE LET e2 == dispose(e1, chain.toneEffects[effectIndex])
              e3 == [e2 EXCEPT
                       !.chains[trackIndex].effects = splice(@, effectIndex),
                       !.chains[trackIndex].toneEffects = splice(@, effectIndex)]
          IN rebuildEffectChain(e3, trackIndex)

\* an update path that assigns the reverb's decay to dampening unscaled
nativeParams_unscaledDecay(type, params) ==
  CASE type = "reverb" ->
         [roomSize |-> params.roomSize, dampening |-> params.decay,
          wet |-> params.wet]
    [] type = "delay" ->
         [delayTime |-> params.time, feedback |-> params.feedback,
          wet |-> params.wet]
    [] type = "distortion" ->
         [distortion |-> params.distortion, oversample |-> params.oversample,
          wet |-> params.wet]
    [] type = "filter" ->
         [frequency |-> params.frequency, type |-> params.type,
          rolloff |-> params.rolloff, Q |-> params.Q]
    [] OTHER -> <<>>

\* the assignments updateToneEffectParams makes to the node, per entry type
nativeParams(type, params) ==
  CASE type = "reverb" ->
         [roomSize |-> params.roomSize, dampening |-> params.decay * 3000,
          wet |-> params.wet]
    [] type = "delay" ->
         [delayTime |-> params.time, feedback |-> params.feedback,
          wet |-> params.wet]
    [] type = "distortion" ->
         [distortion |-> params.distortion, oversample |-> params.oversample,
          wet |-> params.wet]
    [] type = "filter" ->
         [frequency |-> params.frequency, type |-> params.type,
          rolloff |-> params.rolloff, Q |-> params.Q]
    [] OTHER -> <<>>

updateToneEffectParams(e, toneEffect, type, params) ==
  [e EXCEPT !.nodes[toneEffect].settings = spread(@, nativeParams(type, params))]

\* an update that adds the supplied values to the current ones
updateEffect_accumulate(e, trackIndex, effectId, params) ==
  LET e1 == getEffectChain(e, trackIndex)
      chain == e1.chains[trackIndex]
      effectIndex == findIndex(e1, chain.effects, effectId)
  IN IF effectIndex = 0 THEN e1
     ELSE LET effect == chain.effects[effectIndex]
              toneEffect == chain.toneEffects[effectIndex]
              e2 == [e1 EXCEPT !.objects[effect].params =
                       spread(@, [k \in DOMAIN params |-> @[k] + params[k]])]
          IN updateToneEffectParams(e2, toneEffect, e2.objects[effect].type,
                                    e2.objects[effect].params)

\* an update that starts from the type's defaults instead of the entry's
\* current params
updateEffect_fromDefaults(e, trackIndex, effectId, params) ==
  LET e1 == getEffectChain(e, trackIndex)
      chain == e1.chains[trackIndex]
      effectIndex == findIndex(e1, chain.effects, effectId)
  IN IF effectIndex = 0 THEN e1
     ELSE LET effect == chain.effects[effectIndex]
              toneEffect == chain.toneEffects[effectIndex]
              e2 == [e1 EXCEPT !.objects[effect].params =
                       spread(DEFAULT_EFFECT_PARAMS[e1.objects[effect].type],
                              params)]
          IN updateToneEffectParams(e2, toneEffect, e2.objects[effect].type,
                                    e2.objects[effect].params)

\* an update that also switches the entry on and rebuilds the chain
updateEffect_reenable(e, trackIndex, effectId, params) ==
  LET e1 == getEffectChain(e, trackIndex)
      chain == e1.chains[trackIndex]
      effectIndex == findIndex(e1, chain.effects, effectId)
  IN IF effectIndex = 0 THEN e1
     ELSE LET effect == chain.effects[effectIndex]
              toneEffect == chain.toneEffects[effectIndex]
              e2 == [e1 EXCEPT !.objects[effect].params = spread(@, params),
                               !.objects[effect].enabled = TRUE]
              e3 == updateToneEffectParams(e2, toneEffect,
                                           e2.objects[effect].type,
                                           e2.objects[effect].params)
          IN rebuildEffectChain(e3, trackIndex)

\* updateEffect(trackIndex, effectId, params)
updateEffect(e, trackIndex, effectId, params) ==
  LET e1 == getEffectChain(e, trackIndex)
      chain == e1.chains[trackIndex]
      effectIndex == findIndex(e1, chain.effects, effectId)
  IN IF effectIndex = 0 THEN e1
     ELSE LET effect == chain.effects[effectIndex]
              toneEffect == chain.toneEffects[effectIndex]
              e2 == [e1 EXCEPT !.objects[effect].params = spread(@, params)]
          IN updateToneEffectParams(e2, toneEffect, e2.objects[effect].type,
                                    e2.objects[effect].params)

\* a toggle that switches the entry off instead of flipping it
toggleEffect_switchOff(e, trackIndex, effectId) ==
  LET e1 == getEffectChain(e, trackIndex)
      chain == e1.chains[trackIndex]
      effectIndex == findIndex(e1, chain.effects, effectId)
  IN IF effectIndex = 0 THEN e1
     ELSE LET effect == chain.effects[effectIndex]
              e2 == [e1 EXCEPT !.objects[effect].enabled = FALSE]
          IN rebuildEffectChain(e2, trackIndex)

\* a toggle that looks the id up in every chain instead of the addressed one
toggleEffect_everyTrack(e, trackIndex, effectId) ==
  LET e1 == getEffectChain(e, trackIndex)
      flip(x, t) ==
        LET effectIndex == findIndex(x, x.chains[t].effects, effectId)
        IN IF effectIndex = 0 THEN x
           ELSE rebuildEffectChain(
                  [x EXCEPT !.objects[x.chains[t].effects[effectIndex]].enabled
                              = ~@], t)
      other == (DOMAIN e1.chains) \ {trackIndex}
  IN IF other = {} THEN flip(e1, trackIndex)
     ELSE flip(flip(e1, trackIndex), CHOOSE t \in other : TRUE)

\* toggleEffect(trackIndex, effectId)
toggleEffect(e, trackIndex, effectId) ==
  LET e1 == getEffectChain(e, trackIndex)
      chain == e1.chains[trackIndex]
      effectIndex == findIndex(e1, chain.effects, effectId)
  IN IF effectIndex = 0 THEN e1
     ELSE LET effect == chain.effects[effectIndex]
              e2 == [e1 EXCEPT !.objects[effect].enabled = ~@]
          IN rebuildEffectChain(e2, trackIndex)

\* a getChainInput that hands out the chain's output node
getChainInput_output(e, trackIndex) ==
  getEffectChain(e, trackIndex).chains[trackIndex].output

\* getChainInput(trackIndex): the node returned (the chain is created by
\* getEffectChain when the track had none)
getChainInput(e, trackIndex) ==
  getEffectChain(e, trackIndex).chains[trackIndex].input

\* chain.input.dispose(); chain.output.dispose(); then every processing node
RECURSIVE disposeNodes(_, _, _)
disposeNodes(e, nodeRefs, i) ==
  IF i > Len(nodeRefs) THEN e
  ELSE disposeNodes(dispose(e, nodeRefs[i]), nodeRefs, i + 1)

\* effectChains.forEach(chain => ...) over the chains not yet visited
RECURSIVE disposeChains(_, _)
disposeChains(e, ts) ==
  IF ts = {} THEN e
  ELSE LET t == CHOOSE u \in ts : \A v \in ts : u <= v
           chain == e.chains[t]
       IN disposeChains(
            disposeNodes(e, <<chain.input, chain.output>> \o chain.toneEffects, 1),
            ts \ {t})

\* dispose(): every chain's nodes are disposed, then the map is cleared
EffectsEngine_dispose(e) ==
  [disposeChains(e, DOMAIN e.chains) EXCEPT !.chains = <<>>]

\* ------------------------------------------------------------- playback
\* a trigger whose gain node is left unconnected
playSound_unconnected == {}

\* AudioEngine.playSound: gainNode.connect(this.audioContext.destination);
\* the set of nodes the gain node of the trigger is connected to
playSound == {Destination}

\* the routing bridge: what the gain node of a trigger for trackIndex is
\* connected to, the chain having been fetched with getEffectChain
routeTrigger(e, trackIndex, failed) ==
  IF trackIndex = NoTrack \/ failed THEN playSound
  ELSE LET e1 == getEffectChain(e, trackIndex)
       IN IF Len(enabledEffects(e1, e1.chains[trackIndex])) = 0
          THEN playSound
          ELSE {getChainInput(e1, trackIndex)}

\* the engine state a trigger leaves behind (lazy chain creation)
routeTriggerState(e, trackIndex, failed) ==
  IF trackIndex = NoTrack \/ failed THEN e ELSE getEffectChain(e, trackIndex)

\* ------------------------------------------------------------ the caller
\* handleAddEffect: the TrackEffect object it builds
newEffect(effectType, time) ==
  [id |-> <<effectType, time>>, type |-> effectType,
   params |-> IF effectType \in DOMAIN DEFAULT_EFFECT_PARAMS
              THEN DEFAULT_EFFECT_PARAMS[effectType] ELSE <<>>,
   enabled |-> TRUE]

\* effect types the caller asks for
AddTypes == {"reverb", "delay", UnknownType}

\* effect ids a caller may hold, present in a chain or not
EffectIds == ((AddTypes \cap EffectType) \X (0..MaxNow)) \cup {<<UnknownType, 0>>}

\* parameter changes a caller sends (one slider at a time)
Partials == {[wet |-> 80], [decay |-> 20]}

\* the upper end of the delay feedback range (0-0.9), in hundredths
MaxFeedback == 90

\* feedback values a caller of updateEffect may pass: the engine's interface
\* accepts any number
FeedbackPartials == {[feedback |-> v] : v \in {0, MaxFeedback, 95, 150}}

\* the files a track's sound can be switched between
SoundFiles == {"file 1", "file 2"}

\* DEFAULT_SOUNDS: the first file of its group for every track
DEFAULT_SOUNDS == [t \in Tracks |-> "file 1"]

\* Array(32).fill(false) for every track
EmptyPattern == [t \in Tracks |-> [step \in 0..(GridLong - 1) |-> FALSE]]

\* -------------------------------------------------------------- actions
Init ==
  /\ effectChains = <<>>
  /\ objects = <<>>
  /\ audioNodes = <<>>
  /\ connections = {}
  /\ builtFor = <<>>
  /\ isInitialized = FALSE
  /\ initCalls = 0
  /\ backendFailed = FALSE
  /\ now = 0
  /\ playback = {}
  /\ lastOp = [op |-> "none", track |-> NoTrack, ok |-> FALSE]
  /\ trackEffects = [t \in Tracks |-> <<>>]
  /\ isPlaying = FALSE
  /\ currentStep = 0
  /\ gridSize = GridShort
  /\ pattern = EmptyPattern
  /\ sounds = DEFAULT_SOUNDS
  /\ uiInitialized = FALSE
  /\ resumePending = 0
  /\ intervalSounds = DEFAULT_SOUNDS
  /\ fired = {}

\* a TrackEffect object nothing refers to any longer is reclaimed
Collected == [collected |-> TRUE]

Roots(e) == UNION {Range(e.chains[t].effects) : t \in DOMAIN e.chains}

collect(e) ==
  [e EXCEPT !.objects = [r \in DOMAIN @ |->
                           IF r \in Roots(e) THEN @[r] ELSE Collected]]

Apply(e) ==
  /\ effectChains' = e.chains
  /\ objects' = collect(e).objects
  /\ audioNodes' = e.nodes
  /\ connections' = e.conn
  /\ builtFor' = e.builtFor

\* whether effectId names an entry of the track's chain
Present(e, trackIndex, effectId) ==
  /\ trackIndex \in DOMAIN e.chains
  /\ findIndex(e, e.chains[trackIndex].effects, effectId) # 0

\* the caller builds a TrackEffect and hands it to addEffect
AddEffect(trackIndex, effectType) ==
  /\ Len(objects) < MaxEffects
  /\ LET effect == newEffect(effectType, now)
         ref == Len(objects) + 1
         e0 == [Engine EXCEPT !.objects = Append(@, effect)]
     IN /\ Apply(addEffect(e0, trackIndex, ref))
        /\ lastOp' = [op |-> "addEffect", track |-> trackIndex,
                ok |-> createToneEffect(effect) # NullNode]
  /\ playback' = {}
  /\ UNCHANGED <<isInitialized, initCalls, backendFailed, now>>
  /\ UNCHANGED uiVars

RemoveEffect(trackIndex, effectId) ==
  /\ Apply(removeEffect(Engine, trackIndex, effectId))
  /\ lastOp' = [op |-> "removeEffect", track |-> trackIndex,
                ok |-> Present(Engine, trackIndex, effectId)]
  /\ playback' = {}
  /\ UNCHANGED <<isInitialized, initCalls, backendFailed, now>>
  /\ UNCHANGED uiVars

UpdateEffect(trackIndex, effectId, params) ==
  /\ Present(Engine, trackIndex, effectId) =>
       LET chain == effectChains[trackIndex]
           ref == chain.effects[findIndex(Engine, chain.effects, effectId)]
       IN DOMAIN params \subseteq DOMAIN objects[ref].params
  /\ Apply(updateEffect(Engine, trackIndex, effectId, params))
  /\ lastOp' = [op |-> "updateEffect", track |-> trackIndex,
                ok |-> Present(Engine, trackIndex, effectId)]
  /\ playback' = {}
  /\ UNCHANGED <<isInitialized, initCalls, backendFailed, now>>
  /\ UNCHANGED uiVars

ToggleEffect(trackIndex, effectId) ==
  /\ Apply(toggleEffect(Engine, trackIndex, effectId))
  /\ lastOp' = [op |-> "toggleEffect", track |-> trackIndex,
                ok |-> Present(Engine, trackIndex, effectId)]
  /\ playback' = {}
  /\ UNCHANGED <<isInitialized, initCalls, backendFailed, now>>
  /\ UNCHANGED uiVars

\* a trigger: the transient gain node is connected and the source started
PlaySound(trackIndex) ==
  /\ Apply(routeTriggerState(Engine, trackIndex, backendFailed))
  /\ playback' = routeTrigger(Engine, trackIndex, backendFailed)
  /\ lastOp' = [op |-> "playSound", track |-> trackIndex,
                ok |-> routeTrigger(Engine, trackIndex, backendFailed) # playSound]
  /\ UNCHANGED <<isInitialized, initCalls, backendFailed, now>>
  /\ UNCHANGED uiVars

\* the entry of track t that id addresses (the first one carrying the id)
Addressed(t, id) ==
  effectChains[t].effects[findIndex(Engine, effectChains[t].effects, id)]

\* ------------------------------------------------------ the UI handlers
\* the objects the UI's lists refer to
UIRoots(ui) == UNION {Range(ui[t]) : t \in DOMAIN ui}

\* the state after a handler: engine state e, UI lists ui; an object neither
\* the engine nor the UI refers to is reclaimed
ApplyUI(e, ui) ==
  /\ effectChains' = e.chains
  /\ objects' = [r \in DOMAIN e.objects |->
                   IF r \in Roots(e) \cup UIRoots(ui)
                   THEN e.objects[r] ELSE Collected]
  /\ audioNodes' = e.nodes
  /\ connections' = e.conn
  /\ builtFor' = e.builtFor
  /\ trackEffects' = ui

\* handleToggleEffect's state updater: it copies the outer array only and
\* flips the flag on the entry object found in the list
toggleUpdater(e, list, effectId) ==
  LET effectIndex == findIndex(e, list, effectId)
  IN IF effectIndex = 0 THEN e
     ELSE [e EXCEPT !.objects[list[effectIndex]].enabled = ~@]

\* handleUpdateEffect's state updater: assigns the merged params to the entry
\* object found in the list
updateUpdater(e, list, effectId, params) ==
  LET effectIndex == findIndex(e, list, effectId)
  IN IF effectIndex = 0 THEN e
     ELSE [e EXCEPT !.objects[list[effectIndex]].params = spread(@, params)]

\* handleRemoveEffect's state updater: filter(effect => effect.id !== effectId)
removeUpdater(e, list, effectId) ==
  SelectSeq(list, LAMBDA r : e.objects[r].id # effectId)

\* handleAddEffect: the new object goes into the UI's list and, the same
\* object, into the engine
HandleAddEffect(trackIndex, effectType) ==
  /\ Len(objects) < MaxEffects
  /\ LET effect == newEffect(effectType, now)
         ref == Len(objects) + 1
         e0 == [Engine EXCEPT !.objects = Append(@, effect)]
         ui == [trackEffects EXCEPT ![trackIndex] = Append(@, ref)]
     IN /\ ApplyUI(addEffect(e0, trackIndex, ref), ui)
        /\ lastOp' = [op |-> "handleAddEffect", track |-> trackIndex,
                      ok |-> createToneEffect(effect) # NullNode]
  /\ playback' = {}
  /\ UNCHANGED <<isInitialized, initCalls, backendFailed, now>>
  /\ UNCHANGED <<isPlaying, currentStep, gridSize, pattern, sounds,
                 uiInitialized, resumePending, intervalSounds, fired>>

HandleRemoveEffect(trackIndex, effectId) ==
  /\ LET ui == [trackEffects EXCEPT
                  ![trackIndex] = removeUpdater(Engine, @, effectId)]
     IN ApplyUI(removeEffect(Engine, trackIndex, effectId), ui)
  /\ lastOp' = [op |-> "handleRemoveEffect", track |-> trackIndex,
                ok |-> Present(Engine, trackIndex, effectId)]
  /\ playback' = {}
  /\ UNCHANGED <<isInitialized, initCalls, backendFailed, now>>
  /\ UNCHANGED <<isPlaying, currentStep, gridSize, pattern, sounds,
                 uiInitialized, resumePending, intervalSounds, fired>>

\* handleUpdateEffect, called by a slider of an entry the panel shows; the
\* updater and the engine perform the same merge, in either order
HandleUpdateEffect(trackIndex, effectId, params) ==
  /\ findIndex(Engine, trackEffects[trackIndex], effectId) # 0
  /\ LET list == trackEffects[trackIndex]
         ref == list[findIndex(Engine, list, effectId)]
     IN DOMAIN params \subseteq DOMAIN objects[ref].params
  /\ Present(Engine, trackIndex, effectId) =>
       DOMAIN params \subseteq DOMAIN objects[Addressed(trackIndex, effectId)].params
  /\ LET e1 == updateUpdater(Engine, trackEffects[trackIndex], effectId, params)
     IN ApplyUI(updateEffect(e1, trackIndex, effectId, params), trackEffects)
  /\ lastOp' = [op |-> "handleUpdateEffect", track |-> trackIndex,
                ok |-> Present(Engine, trackIndex, effectId)]
  /\ playback' = {}
  /\ UNCHANGED <<isInitialized, initCalls, backendFailed, now>>
  /\ UNCHANGED <<isPlaying, currentStep, gridSize, pattern, sounds,
                 uiInitialized, resumePending, intervalSounds, fired>>

\* handleToggleEffect: the updater runs before the engine call (computed
\* eagerly) or after it (at the next render)
HandleToggleEffect(trackIndex, effectId, updaterFirst) ==
  /\ LET list == trackEffects[trackIndex]
         e2 == IF updaterFirst
               THEN toggleEffect(toggleUpdater(Engine, list, effectId),
                                 trackIndex, effectId)
               ELSE toggleUpdater(toggleEffect(Engine, trackIndex, effectId),
                                  list, effectId)
     IN ApplyUI(e2, trackEffects)
  /\ lastOp' = [op |-> "handleToggleEffect", track |-> trackIndex,
                ok |-> /\ Present(Engine, trackIndex, effectId)
                       /\ findIndex(Engine, trackEffects[trackIndex],
                                    effectId) # 0]
  /\ playback' = {}
  /\ UNCHANGED <<isInitialized, initCalls, backendFailed, now>>
  /\ UNCHANGED <<isPlaying, currentStep, gridSize, pattern, sounds,
                 uiInitialized, resumePending, intervalSounds, fired>>

\* ------------------------------------------------------- the sequencer
\* the step count of the component without a grid-size switch
STEPS == GridLong

\* the sounds a tick triggers: the callback of setInterval reads the pattern
\* through patternRef and the sounds and the flag through its closure
RECURSIVE forEachSound(_, _, _, _)
forEachSound(soundIndex, snds, pat, prev) ==
  IF soundIndex > MaxTrack THEN {}
  ELSE (IF pat[soundIndex][prev]
        THEN {<<soundIndex, snds[soundIndex]>>} ELSE {})
       \cup forEachSound(soundIndex + 1, snds, pat, prev)

\* a tick that runs over the whole array, whatever the grid size
stepCallback_fullGrid(prev, size, pat, snds, initialized) ==
  [nextStep |-> (prev + 1) % GridLong,
   fired |-> IF initialized THEN forEachSound(0, snds, pat, prev) ELSE {}]

\* the updater the interval hands to setCurrentStep
stepCallback(prev, size, pat, snds, initialized) ==
  [nextStep |-> (prev + 1) % size,
   fired |-> IF initialized THEN forEachSound(0, snds, pat, prev) ELSE {}]

\* a Stop that leaves the step where it is
togglePlay_noReset(playing, step, pending) ==
  IF ~playing
  THEN [isPlaying |-> playing, currentStep |-> step,
        resumePending |-> pending + 1]
  ELSE [isPlaying |-> ~playing, currentStep |-> step,
        resumePending |-> pending]

\* togglePlay up to its await (Play) or to its end (Stop)
togglePlay(playing, step, pending) ==
  IF ~playing
  THEN [isPlaying |-> playing, currentStep |-> step,
        resumePending |-> pending + 1]
  ELSE [isPlaying |-> ~playing, currentStep |-> 0,
        resumePending |-> pending]

\* togglePlay of the component without a grid-size switch
togglePlayTsx(playing, step, pending) ==
  IF ~playing
  THEN [isPlaying |-> playing, currentStep |-> step,
        resumePending |-> pending + 1]
  ELSE [isPlaying |-> ~playing, currentStep |-> step,
        resumePending |-> pending]

\* what a sequencer handler leaves alone
SequencerFrame ==
  /\ playback' = {}
  /\ UNCHANGED <<effectChains, objects, audioNodes, connections, builtFor,
                 isInitialized, initCalls, backendFailed, now, trackEffects>>

\* initAudio: audioEngine.initialize() has resolved; the interval effect
\* depends on the flag and runs again
AudioInitialized ==
  /\ ~uiInitialized
  /\ uiInitialized' = TRUE
  /\ intervalSounds' = sounds
  /\ fired' = {}
  /\ lastOp' = [op |-> "initAudio", track |-> NoTrack, ok |-> TRUE]
  /\ UNCHANGED <<isPlaying, currentStep, gridSize, pattern, sounds,
                 resumePending>>
  /\ SequencerFrame

\* toggleStep, from a cell the grid renders
ToggleStep(soundIndex, stepIndex, size) ==
  /\ stepIndex < size
  /\ pattern' = [pattern EXCEPT ![soundIndex][stepIndex] = ~@]
  /\ fired' = {}
  /\ lastOp' = [op |-> "toggleStep", track |-> NoTrack, ok |-> TRUE]
  /\ UNCHANGED <<isPlaying, currentStep, gridSize, sounds, uiInitialized,
                 resumePending, intervalSounds>>
  /\ SequencerFrame

\* a click on Play/Stop: the handler reads isPlaying as rendered
TogglePlay ==
  /\ isPlaying \/ resumePending < MaxResume
  /\ LET r == togglePlay(isPlaying, currentStep, resumePending)
     IN /\ isPlaying' = r.isPlaying
        /\ currentStep' = r.currentStep
        /\ resumePending' = r.resumePending
  /\ intervalSounds' = sounds
  /\ fired' = {}
  /\ lastOp' = [op |-> "togglePlay", track |-> NoTrack, ok |-> isPlaying]
  /\ UNCHANGED <<gridSize, pattern, sounds, uiInitialized>>
  /\ SequencerFrame

\* resumeContext() resolves: the suspended togglePlay sets the negation of
\* the isPlaying it read at the click, which was false
ResumeResolves ==
  /\ resumePending > 0
  /\ resumePending' = resumePending - 1
  /\ isPlaying' = TRUE
  /\ intervalSounds' = IF isPlaying THEN intervalSounds ELSE sounds
  /\ fired' = {}
  /\ lastOp' = [op |-> "resumeResolves", track |-> NoTrack, ok |-> TRUE]
  /\ UNCHANGED <<currentStep, gridSize, pattern, sounds, uiInitialized>>
  /\ SequencerFrame

\* the interval fires; it exists only while isPlaying is rendered true
IntervalTick ==
  /\ isPlaying
  /\ LET r == stepCallback(currentStep, gridSize, pattern, intervalSounds,
                           uiInitialized)
     IN /\ currentStep' = r.nextStep
        /\ fired' = r.fired
  /\ lastOp' = [op |-> "intervalTick", track |-> NoTrack, ok |-> TRUE]
  /\ UNCHANGED <<isPlaying, gridSize, pattern, sounds, uiInitialized,
                 resumePending, intervalSounds>>
  /\ SequencerFrame

\* selectSound; the interval effect depends on sounds and runs again
SelectSound(soundIndex, newSound) ==
  /\ sounds' = [sounds EXCEPT ![soundIndex] = newSound]
  /\ intervalSounds' = sounds'
  /\ fired' = {}
  /\ lastOp' = [op |-> "selectSound", track |-> soundIndex, ok |-> TRUE]
  /\ UNCHANGED <<isPlaying, currentStep, gridSize, pattern, uiInitialized,
                 resumePending>>
  /\ SequencerFrame

ClearPattern ==
  /\ pattern' = EmptyPattern
  /\ isPlaying' = FALSE
  /\ currentStep' = 0
  /\ intervalSounds' = sounds
  /\ fired' = {}
  /\ lastOp' = [op |-> "clearPattern", track |-> NoTrack, ok |-> TRUE]
  /\ UNCHANGED <<gridSize, sounds, uiInitialized, resumePending>>
  /\ SequencerFrame

\* toggleGridSize: neither branch touches the pattern
ToggleGridSize ==
  /\ gridSize' = IF gridSize = GridShort THEN GridLong ELSE GridShort
  /\ isPlaying' = FALSE
  /\ currentStep' = 0
  /\ intervalSounds' = sounds
  /\ fired' = {}
  /\ lastOp' = [op |-> "toggleGridSize", track |-> NoTrack, ok |-> TRUE]
  /\ UNCHANGED <<pattern, sounds, uiInitialized, resumePending>>
  /\ SequencerFrame

\* the component without a grid-size switch: togglePlay
TogglePlayTsx ==
  /\ isPlaying \/ resumePending < MaxResume
  /\ LET r == togglePlayTsx(isPlaying, currentStep, resumePending)
     IN /\ isPlaying' = r.isPlaying
        /\ currentStep' = r.currentStep
        /\ resumePending' = r.resumePending
  /\ intervalSounds' = IF isPlaying THEN sounds ELSE intervalSounds
  /\ fired' = {}
  /\ lastOp' = [op |-> "togglePlay", track |-> NoTrack, ok |-> isPlaying]
  /\ UNCHANGED <<gridSize, pattern, sounds, uiInitialized>>
  /\ SequencerFrame

\* its interval: the step runs over STEPS
IntervalTickTsx ==
  /\ isPlaying
  /\ LET r == stepCallback(currentStep, STEPS, pattern, intervalSounds,
                           uiInitialized)
     IN /\ currentStep' = r.nextStep
        /\ fired' = r.fired
  /\ lastOp' = [op |-> "intervalTick", track |-> NoTrack, ok |-> TRUE]
  /\ UNCHANGED <<isPlaying, gridSize, pattern, sounds, uiInitialized,
                 resumePending, intervalSounds>>
  /\ SequencerFrame

\* its selectSound: the interval effect does not depend on sounds, so a
\* running interval keeps the closure it was created with
SelectSoundTsx(soundIndex, newSound) ==
  /\ sounds' = [sounds EXCEPT ![soundIndex] = newSound]
  /\ intervalSounds' = IF isPlaying THEN intervalSounds ELSE sounds'
  /\ fired' = {}
  /\ lastOp' = [op |-> "selectSound", track |-> soundIndex, ok |-> TRUE]
  /\ UNCHANGED <<isPlaying, currentStep, gridSize, pattern, uiInitialized,
                 resumePending>>
  /\ SequencerFrame

\* its clearPattern, which ends in resetSequencer
ClearPatternTsx ==
  /\ pattern' = EmptyPattern
  /\ isPlaying' = FALSE
  /\ currentStep' = 0
  /\ intervalSounds' = sounds
  /\ fired' = {}
  /\ lastOp' = [op |-> "clearPattern", track |-> NoTrack, ok |-> TRUE]
  /\ UNCHANGED <<gridSize, sounds, uiInitialized, resumePending>>
  /\ SequencerFrame

\* initialize(): how the promise it returns settles, given whether
\* Tone.start() resolved; the await is not inside a try block
initialize_settles(started) == IF started THEN "fulfilled" ELSE "rejected"

\* getChainInput(trackIndex) called on the engine
GetChainInput(trackIndex) ==
  /\ Apply(getEffectChain(Engine, trackIndex))
  /\ lastOp' = [op |-> "getChainInput", track |-> trackIndex, ok |-> TRUE]
  /\ playback' = {}
  /\ UNCHANGED <<isInitialized, initCalls, backendFailed, now>>
  /\ UNCHANGED uiVars

\* dispose() called on the engine
Dispose ==
  /\ Len(audioNodes) <= MaxNodes
  /\ Apply(EffectsEngine_dispose(Engine))
  /\ lastOp' = [op |-> "dispose", track |-> NoTrack, ok |-> TRUE]
  /\ playback' = {}
  /\ UNCHANGED <<isInitialized, initCalls, backendFailed, now>>
  /\ UNCHANGED uiVars

\* initialize() up to its await
InitializeCall ==
  /\ ~isInitialized
  /\ initCalls < MaxInitCalls
  /\ initCalls' = initCalls + 1
  /\ lastOp' = [op |-> "initialize", track |-> NoTrack, ok |-> FALSE]
  /\ UNCHANGED <<effectChains, objects, audioNodes, connections, builtFor,
                 isInitialized, backendFailed, now, playback>>
  /\ UNCHANGED uiVars

\* Tone.start() resolves: the suspended call sets the flag
ToneStartResolves ==
  /\ initCalls > 0
  /\ initCalls' = initCalls - 1
  /\ isInitialized' = TRUE
  /\ lastOp' = [op |-> "initialized", track |-> NoTrack, ok |-> TRUE]
  /\ UNCHANGED <<effectChains, objects, audioNodes, connections, builtFor,
                 backendFailed, now, playback>>
  /\ UNCHANGED uiVars

\* Tone.start() rejects: the flag stays clear and the failure is recorded
ToneStartRejects ==
  /\ initCalls > 0
  /\ initCalls' = initCalls - 1
  /\ backendFailed' = TRUE
  /\ lastOp' = [op |-> "initialized", track |-> NoTrack, ok |-> FALSE]
  /\ UNCHANGED <<effectChains, objects, audioNodes, connections, builtFor,
                 isInitialized, now, playback>>
  /\ UNCHANGED uiVars

\* time passes
Tick ==
  /\ now < MaxNow
  /\ now' = now + 1
  /\ UNCHANGED <<effectChains, objects, audioNodes, connections, builtFor,
                 isInitialized, initCalls, backendFailed, playback, lastOp>>
  /\ UNCHANGED uiVars

\* the engine driven through its public operations
Next ==
  \/ \E t \in Tracks, k \in AddTypes : AddEffect(t, k)
  \/ \E t \in Tracks, id \in EffectIds : RemoveEffect(t, id)
  \/ \E t \in Tracks, id \in EffectIds, p \in Partials : UpdateEffect(t, id, p)
  \/ \E t \in Tracks, id \in EffectIds : ToggleEffect(t, id)
  \/ Tick

Spec == Init /\ [][Next]_vars

\* triggers interleaved with chain mutations and backend initialisation
NextPlayback ==
  \/ \E t \in Tracks, k \in AddTypes : AddEffect(t, k)
  \/ \E t \in Tracks, id \in EffectIds : RemoveEffect(t, id)
  \/ \E t \in Tracks, id \in EffectIds : ToggleEffect(t, id)
  \/ \E t \in Tracks \cup {NoTrack} : PlaySound(t)
  \/ InitializeCall
  \/ ToneStartResolves
  \/ ToneStartRejects

SpecPlayback == Init /\ [][NextPlayback]_vars

\* the engine's whole interface, dispose() included
NextLifecycle ==
  \/ \E t \in Tracks, k \in AddTypes : AddEffect(t, k)
  \/ \E t \in Tracks, id \in EffectIds : RemoveEffect(t, id)
  \/ \E t \in Tracks, id \in EffectIds, p \in Partials : UpdateEffect(t, id, p)
  \/ \E t \in Tracks, id \in EffectIds : ToggleEffect(t, id)
  \/ \E t \in Tracks : GetChainInput(t)
  \/ Dispose

SpecLifecycle == Init /\ [][NextLifecycle]_vars

\* the engine called with parameter values of the caller's choosing
NextParams ==
  \/ \E t \in Tracks, k \in AddTypes : AddEffect(t, k)
  \/ \E t \in Tracks, id \in EffectIds : RemoveEffect(t, id)
  \/ \E t \in Tracks, id \in EffectIds, p \in FeedbackPartials :
       UpdateEffect(t, id, p)

SpecParams == Init /\ [][NextParams]_vars

\* the effects panel's handlers driving the engine
NextUI ==
  \/ \E t \in Tracks, k \in AddTypes : HandleAddEffect(t, k)
  \/ \E t \in Tracks, id \in EffectIds : HandleRemoveEffect(t, id)
  \/ \E t \in Tracks, id \in EffectIds, p \in Partials :
       HandleUpdateEffect(t, id, p)
  \/ \E t \in Tracks, id \in EffectIds, first \in BOOLEAN :
       HandleToggleEffect(t, id, first)

SpecUI == Init /\ [][NextUI]_vars

\* the sequencer component with the grid-size switch
NextSequencer ==
  \/ AudioInitialized
  \/ \E t \in Tracks, step \in 0..(GridLong - 1) : ToggleStep(t, step, gridSize)
  \/ TogglePlay
  \/ ResumeResolves
  \/ IntervalTick
  \/ \E t \in Tracks, f \in SoundFiles : SelectSound(t, f)
  \/ ClearPattern
  \/ ToggleGridSize

SpecSequencer == Init /\ [][NextSequencer]_vars

\* the sequencer component without it
NextSequencerTsx ==
  \/ AudioInitialized
  \/ \E t \in Tracks, step \in 0..(STEPS - 1) : ToggleStep(t, step, STEPS)
  \/ TogglePlayTsx
  \/ ResumeResolves
  \/ IntervalTickTsx
  \/ \E t \in Tracks, f \in SoundFiles : SelectSoundTsx(t, f)
  \/ ClearPatternTsx

SpecSequencerTsx == Init /\ [][NextSequencerTsx]_vars

\* ------------------------------------------------------- graph reading
\* the connections the rebuild rule prescribes for a chain
chainEdges(e, chain) ==
  LET en == enabledEffects(e, chain)
  IN IF Len(en) = 0 THEN {<<chain.input, chain.output>>}
     ELSE {<<chain.input, en[1]>>}
          \cup {<<en[i], en[i + 1]>> : i \in 1..(Len(en) - 1)}
          \cup {<<en[Len(en)], chain.output>>}

Successors(e, n) == {c[2] : c \in {d \in e.conn : d[1] = n}}

\* the nodes a signal entering at n passes, up to the destination; the walk
\* stops early at a node with no or several outgoing connections
RECURSIVE Walk(_, _, _)
Walk(e, n, fuel) ==
  IF n = Destination \/ fuel = 0 \/ Cardinality(Successors(e, n)) # 1
  THEN <<n>>
  ELSE <<n>> \o Walk(e, CHOOSE m \in Successors(e, n) : TRUE, fuel - 1)

SignalPath(e, n) == Walk(e, n, Len(e.nodes) + 1)

\* input, the enabled nodes in sequence order, output, destination
EnabledPath(e, chain) ==
  <<chain.input>> \o enabledEffects(e, chain) \o <<chain.output, Destination>>

\* ---------------------------------------------------------------- claims

\* C1: in every chain the effects and toneEffects sequences have the same
\* length, and the node at each index is the node constructed for the entry
\* at that index.
C1_SequencesAligned ==
  \A t \in DOMAIN effectChains :
    LET chain == effectChains[t]
    IN /\ Len(chain.effects) = Len(chain.toneEffects)
       /\ \A i \in 1..Len(chain.toneEffects) :
            builtFor[chain.toneEffects[i]] = chain.effects[i]

\* C1 witness: an entry has just been removed from a chain that keeps another
C1_Witness ==
  /\ lastOp.op = "removeEffect" /\ lastOp.ok
  /\ \E t \in DOMAIN effectChains : Len(effectChains[t].effects) >= 1
  /\ \E r \in DOMAIN objects : objects[r] = Collected

C3_OutputStaysConnected ==
  \A t \in DOMAIN effectChains :
    <<effectChains[t].output, Destination>> \in connections

\* C3 witness: a chain that has been rebuilt by a toggle and still has entries
C3_Witness ==
  /\ lastOp.op = "toggleEffect" /\ lastOp.ok
  /\ \E t \in DOMAIN effectChains : Len(effectChains[t].effects) = 2

\* the step just taken is a trigger for a track whose chain held at least
\* one enabled entry
TriggerOnEnabled ==
  /\ lastOp'.op = "playSound" /\ now' = now /\ playback' # {}
  /\ lastOp'.track \in DOMAIN effectChains
  /\ Len(enabledEffects(Engine, effectChains[lastOp'.track])) >= 1

\* the gain node of the trigger is connected to the chain input of track t,
\* from where the signal passes the enabled nodes in order, then the output
RoutedThroughChain(t) ==
  /\ playback' = {effectChains'[t].input}
  /\ SignalPath(Engine', effectChains'[t].input)
       = EnabledPath(Engine', effectChains'[t])

TriggerBypass ==
  /\ lastOp'.op = "playSound" /\ now' = now
  /\ \/ lastOp'.track = NoTrack
     \/ backendFailed
     \/ lastOp'.track \notin DOMAIN effectChains
     \/ Len(enabledEffects(Engine, effectChains[lastOp'.track])) = 0

\* C5: such a trigger's gain node is connected to the destination and to
\* nothing else, so no processing node is in its path.
C5_BypassToDestination ==
  [][TriggerBypass => playback' = {Destination}]_vars

\* C5 witness: a trigger on a track whose only entry is disabled went
\* straight to the destination
C5_Witness ==
  /\ lastOp.op = "playSound" /\ lastOp.track \in Tracks
  /\ ~backendFailed
  /\ Len(effectChains[lastOp.track].effects) = 1
  /\ ~objects[effectChains[lastOp.track].effects[1]].enabled
  /\ playback = {Destination}

\* the step just taken is the operation op, with the given outcome
Did(op, ok) == lastOp'.op = op /\ lastOp'.ok = ok /\ now' = now

\* C6: toggling a present entry and toggling it again restores the enabled
\* flags, the chains and the connection graph found before the first toggle,
\* with the same nodes: none constructed, none disposed.
C6_ToggleTwiceRestores ==
  [][Did("toggleEffect", TRUE) =>
     \A id \in EffectIds :
       (Present(Engine, lastOp'.track, id) /\ ToggleEffect(lastOp'.track, id)) =>
         LET twice == toggleEffect(Engine', lastOp'.track, id)
         IN /\ twice.chains = effectChains
            /\ twice.objects = objects
            /\ twice.nodes = audioNodes
            /\ twice.conn = connections]_vars

\* C6 witness: a toggle has just disabled the first entry of a two-entry chain
C6_Witness ==
  /\ lastOp.op = "toggleEffect" /\ lastOp.ok
  /\ LET chain == effectChains[lastOp.track]
     IN /\ Len(chain.effects) = 2
        /\ ~objects[chain.effects[1]].enabled
        /\ <<chain.input, chain.toneEffects[2]>> \in connections

\* C7: repeating an updateEffect call with the same partial parameters leaves
\* the entry's params and the node's settings as the first call left them.
C7_UpdateIdempotent ==
  [][Did("updateEffect", TRUE) =>
     \A id \in EffectIds, p \in Partials :
       (Present(Engine, lastOp'.track, id) /\ UpdateEffect(lastOp'.track, id, p)) =>
         LET twice == updateEffect(Engine', lastOp'.track, id, p)
         IN /\ twice.objects = objects'
            /\ twice.nodes = audioNodes']_vars

\* C7 witness: an update has just changed a reverb's decay and its node
C7_Witness ==
  /\ lastOp.op = "updateEffect" /\ lastOp.ok
  /\ LET chain == effectChains[lastOp.track]
     IN \E i \in 1..Len(chain.effects) :
          /\ objects[chain.effects[i]].type = "reverb"
          /\ objects[chain.effects[i]].params.decay = 20
          /\ audioNodes[chain.toneEffects[i]].settings.dampening = 60000

\* what a step may change when the operation finds nothing to do on track t:
\* nothing if the track has a chain; otherwise the track's empty chain is
\* created (two gain nodes, input -> output -> destination) and nothing else
\* changes
OnlyLazyChain(t) ==
  IF t \in DOMAIN effectChains
  THEN /\ UNCHANGED <<effectChains, audioNodes, connections>>
       /\ \A r \in DOMAIN objects : objects'[r] = objects[r]
  ELSE LET input  == Len(audioNodes) + 1
           output == Len(audioNodes) + 2
       IN /\ DOMAIN effectChains' = DOMAIN effectChains \cup {t}
          /\ \A u \in DOMAIN effectChains : effectChains'[u] = effectChains[u]
          /\ effectChains'[t] = [trackIndex |-> t, effects |-> <<>>,
                                 toneEffects |-> <<>>, input |-> input,
                                 output |-> output]
          /\ audioNodes' = audioNodes \o <<NewGain, NewGain>>
          /\ connections' = connections
                              \cup {<<input, output>>, <<output, Destination>>}
          /\ \A r \in DOMAIN objects : objects'[r] = objects[r]

\* a remove, update or toggle step whose id the chain does not hold
UnknownIdStep ==
  \/ Did("removeEffect", FALSE)
  \/ Did("updateEffect", FALSE)
  \/ Did("toggleEffect", FALSE)

\* C8 as stated: remove, update and toggle with an id the chain does not hold
\* leave chains, entries, nodes and connections unchanged.
C8_UnknownIdChangesNothing ==
  [][UnknownIdStep =>
       UNCHANGED <<effectChains, objects, audioNodes, connections>>]_vars

\* C8 amended: remove, update and toggle with an id the chain does not hold
\* change no entry, dispose no node and rebuild nothing; their only effect is
\* that the addressed track's empty chain is created when it had none.
C8_UnknownIdOnlyLazyChain ==
  [][UnknownIdStep => OnlyLazyChain(lastOp'.track)]_vars

\* C8 witness: an id not held by a chain that has entries was just used
C8_Witness ==
  /\ lastOp.op \in {"removeEffect", "updateEffect", "toggleEffect"}
  /\ ~lastOp.ok
  /\ Len(effectChains[lastOp.track].effects) >= 1
  /\ \E r \in DOMAIN objects : objects[r] = Collected

C10_AddAppends ==
  [][Did("addEffect", TRUE) =>
       LET t == lastOp'.track
           before == getEffectChain(Engine, t)
           old == before.chains[t]
           new == effectChains'[t]
           ref == Len(objects) + 1
           node == Len(audioNodes')
       IN /\ ref \notin Roots(Engine)
          /\ new.effects = Append(old.effects, ref)
          /\ new.toneEffects = Append(old.toneEffects, node)
          /\ node > Len(before.nodes)
          /\ objects'[ref].enabled
          /\ objects'[ref].type \in EffectType
          /\ objects'[ref].params = DEFAULT_EFFECT_PARAMS[objects'[ref].type]
          /\ enabledEffects(Engine', new)
               = Append(enabledEffects(before, old), node)
          /\ SignalPath(Engine', new.input) = EnabledPath(Engine', new)]_vars

\* C10 witness: reverb then delay were added to an empty chain and the path
\* is input -> reverb -> delay -> output -> destination
C10_Witness ==
  /\ lastOp.op = "addEffect" /\ lastOp.ok
  /\ LET chain == effectChains[lastOp.track]
     IN /\ Len(chain.effects) = 2
        /\ objects[chain.effects[1]].type = "reverb"
        /\ objects[chain.effects[2]].type = "delay"
        /\ SignalPath(Engine, chain.input)
             = <<chain.input, chain.toneEffects[1], chain.toneEffects[2],
                 chain.output, Destination>>

\* C11: removing a present entry leaves the chain with one entry fewer: the
\* entry and its node are gone from both sequences, the others keep their
\* order, the removed node is disposed and unconnected, no other node of the
\* chain is disposed, and the signal path runs over the remaining enabled
\* nodes.
C11_RemoveDropsEntry ==
  [][Did("removeEffect", TRUE) =>
       LET t == lastOp'.track
           old == effectChains[t]
           new == effectChains'[t]
       IN \E i \in 1..Len(old.effects) :
            LET ref == old.effects[i]
                node == old.toneEffects[i]
            IN /\ Len(new.effects) = Len(old.effects) - 1
               /\ new.effects = splice(old.effects, i)
               /\ new.toneEffects = splice(old.toneEffects, i)
               /\ ref \notin Range(new.effects)
               /\ node \notin Range(new.toneEffects)
               /\ audioNodes'[node].disposed
               /\ \A c \in connections' : c[1] # node /\ c[2] # node
               /\ \A n \in Range(new.toneEffects) : ~audioNodes'[n].disposed
               /\ new.input = old.input /\ new.output = old.output
               /\ SignalPath(Engine', new.input) = EnabledPath(Engine', new)]_vars

\* C11 witness: the delay was removed from a reverb, delay chain; the reverb
\* remains, the path is input -> reverb -> output and the delay node is
\* disposed
C11_Witness ==
  /\ lastOp.op = "removeEffect" /\ lastOp.ok
  /\ LET chain == effectChains[lastOp.track]
     IN /\ Len(chain.effects) = 1
        /\ objects[chain.effects[1]].type = "reverb"
        /\ SignalPath(Engine, chain.input)
             = <<chain.input, chain.toneEffects[1], chain.output, Destination>>
        /\ \E n \in DOMAIN audioNodes :
             /\ audioNodes[n].kind = "FeedbackDelay"
             /\ audioNodes[n].disposed

\* C12: after updateEffect every field named in the partial has the supplied
\* value and every field not named has the value it had before the call; no
\* field appears or disappears.
C12_UpdateMergesFields ==
  [][Did("updateEffect", TRUE) =>
     \A id \in EffectIds, p \in Partials :
       (Present(Engine, lastOp'.track, id) /\ UpdateEffect(lastOp'.track, id, p)) =>
         LET ref == Addressed(lastOp'.track, id)
             before == objects[ref].params
             after == objects'[ref].params
         IN /\ DOMAIN after = DOMAIN before
            /\ \A k \in DOMAIN p : after[k] = p[k]
            /\ \A k \in (DOMAIN before) \ (DOMAIN p) : after[k] = before[k]]_vars

\* C12 witness: a reverb whose wet and decay were both updated keeps its
\* roomSize and the value of the earlier update
C12_Witness ==
  /\ lastOp.op = "updateEffect" /\ lastOp.ok
  /\ LET chain == effectChains[lastOp.track]
     IN \E i \in 1..Len(chain.effects) :
          objects[chain.effects[i]].params
            = [roomSize |-> 40, decay |-> 20, wet |-> 80]

\* C13: updateEffect changes the addressed entry's params and its node's
\* settings and nothing else: chains, sequences and connections are as before,
\* every entry keeps id, type and enabled flag, every other entry keeps its
\* params, every other node its settings, and no node is constructed.
C13_UpdateChangesOnlyParams ==
  [][Did("updateEffect", TRUE) =>
     \A id \in EffectIds, p \in Partials :
       (Present(Engine, lastOp'.track, id) /\ UpdateEffect(lastOp'.track, id, p)) =>
         LET t == lastOp'.track
             i == findIndex(Engine, effectChains[t].effects, id)
             ref == effectChains[t].effects[i]
             node == effectChains[t].toneEffects[i]
         IN /\ effectChains' = effectChains
            /\ connections' = connections
            /\ DOMAIN audioNodes' = DOMAIN audioNodes
            /\ DOMAIN objects' = DOMAIN objects
            /\ \A n \in DOMAIN audioNodes :
                 /\ n # node => audioNodes'[n] = audioNodes[n]
                 /\ audioNodes'[n].kind = audioNodes[n].kind
                 /\ audioNodes'[n].disposed = audioNodes[n].disposed
            /\ \A r \in DOMAIN objects :
                 IF r = ref
                 THEN /\ objects'[r].id = objects[r].id
                      /\ objects'[r].type = objects[r].type
                      /\ objects'[r].enabled = objects[r].enabled
                 ELSE objects'[r] = objects[r]]_vars

\* C13 witness: the disabled entry of a two-entry chain has just been updated
\* and is still disabled and unconnected
C13_Witness ==
  /\ lastOp.op = "updateEffect" /\ lastOp.ok
  /\ LET chain == effectChains[lastOp.track]
     IN /\ Len(chain.effects) = 2
        /\ \E i \in 1..2 :
             /\ ~objects[chain.effects[i]].enabled
             /\ objects[chain.effects[i]].params.wet = 80
             /\ audioNodes[chain.toneEffects[i]].settings.wet = 80
             /\ \A c \in connections : c[2] # chain.toneEffects[i]

\* the entries the engine holds, over all chains
LiveEntries == Roots(Engine)

\* C14: ids are never reused; in particular no two entries held by the
\* engine, in one chain or in different chains, carry the same id.
C14_IdsNeverReused ==
  \A r1 \in LiveEntries, r2 \in LiveEntries :
    r1 # r2 => objects[r1].id # objects[r2].id

\* the operations that reference a track's chain
ChainOps ==
  {"addEffect", "removeEffect", "updateEffect", "toggleEffect", "getChainInput"}

\* C15: a step that references a track leaves that track with a chain; no
\* step other than dispose() removes a chain or changes the identity of its
\* input or output node; the boundary nodes of different tracks are different
\* nodes.
C15_OneStableChainPerTrack ==
  [][lastOp'.op \in ChainOps =>
       /\ lastOp'.track \in DOMAIN effectChains'
       /\ \A t \in DOMAIN effectChains :
            /\ t \in DOMAIN effectChains'
            /\ effectChains'[t].input = effectChains[t].input
            /\ effectChains'[t].output = effectChains[t].output
       /\ \A t \in DOMAIN effectChains', u \in DOMAIN effectChains' :
            /\ effectChains'[t].trackIndex = t
            /\ effectChains'[t].input # effectChains'[u].output
            /\ t # u => effectChains'[t].input # effectChains'[u].input
            /\ t # u => effectChains'[t].output # effectChains'[u].output]_vars

\* C15 witness: getChainInput has just returned the input of a chain that was
\* created earlier and has since received two entries, next to another chain
C15_Witness ==
  /\ lastOp.op = "getChainInput"
  /\ Len(effectChains[lastOp.track].effects) = 2
  /\ DOMAIN effectChains = Tracks
  /\ \A n \in DOMAIN audioNodes : ~audioNodes[n].disposed

\* dispose() has torn down at least one chain
TornDown ==
  \E n \in DOMAIN audioNodes :
    audioNodes[n].kind = "gain" /\ audioNodes[n].disposed

\* C16: after dispose() no add, remove, update, toggle or getChainInput call
\* creates a chain, constructs a node or makes a connection.
C16_DisposeIsTerminal ==
  [][(TornDown /\ lastOp'.op \in ChainOps) =>
       /\ effectChains' = effectChains
       /\ audioNodes' = audioNodes
       /\ connections' = connections]_vars

C18_InitBeforeChainOps ==
  [][(lastOp'.op \in ChainOps /\ now' = now
        /\ Len(audioNodes') > Len(audioNodes)) => isInitialized]_vars

\* C19: no failure of the effects subsystem reaches the caller as an
\* exception; in particular initialize() does not reject when the backend
\* fails to start.
C19_FailuresContained ==
  ~(lastOp.op = "initialized" /\ initialize_settles(lastOp.ok) = "rejected")

\* C20: every delay entry's feedback, and the feedback set on its node, lies
\* within [0, 0.9].
C20_FeedbackCapped ==
  \A t \in DOMAIN effectChains :
    \A i \in 1..Len(effectChains[t].effects) :
      objects[effectChains[t].effects[i]].type = "delay" =>
        /\ objects[effectChains[t].effects[i]].params.feedback \in 0..MaxFeedback
        /\ audioNodes[effectChains[t].toneEffects[i]].settings.feedback
             \in 0..MaxFeedback

\* the native parameters an entry of the given type and params stands for:
\* field for field, the reverb's dampening being decay x 3000 and the filter
\* node having no wet
MappedParams(type, params) ==
  CASE type = "reverb" ->
         [roomSize |-> params.roomSize, dampening |-> 3000 * params.decay,
          wet |-> params.wet]
    [] type = "delay" ->
         [delayTime |-> params.time, feedback |-> params.feedback,
          wet |-> params.wet]
    [] type = "distortion" ->
         [distortion |-> params.distortion, oversample |-> params.oversample,
          wet |-> params.wet]
    [] type = "filter" ->
         [frequency |-> params.frequency, type |-> params.type,
          rolloff |-> params.rolloff, Q |-> params.Q]

\* C21: the node of every entry carries the native parameters its entry's
\* current params stand for, after construction and after every update.
C21_NodeMatchesParams ==
  \A t \in DOMAIN effectChains :
    \A i \in 1..Len(effectChains[t].effects) :
      LET effect == objects[effectChains[t].effects[i]]
      IN audioNodes[effectChains[t].toneEffects[i]].settings
           = MappedParams(effect.type, effect.params)

\* C21 witness: a reverb constructed with the default decay and then updated
\* to decay 0.2 has dampening 600, next to a delay still as constructed
C21_Witness ==
  /\ lastOp.op = "updateEffect" /\ lastOp.ok
  /\ LET chain == effectChains[lastOp.track]
     IN /\ Len(chain.effects) = 2
        /\ objects[chain.effects[1]].type = "reverb"
        /\ audioNodes[chain.toneEffects[1]].settings
             = [roomSize |-> 40, dampening |-> 60000, wet |-> 30]
        /\ audioNodes[chain.toneEffects[2]].settings
             = [delayTime |-> 25, feedback |-> 30, wet |-> 30]

\* the nodes a chain's connections may join: its input, its enabled nodes and
\* its output
ChainNodes(t) ==
  {effectChains[t].input, effectChains[t].output}
    \cup Range(enabledEffects(Engine, effectChains[t]))

\* C22: no connection has a disposed node as source or target, and every
\* connection joins nodes of one chain (its input, enabled nodes, output) or
\* leads from a chain's output to the destination.
C22_NoDanglingConnection ==
  \A c \in connections :
    /\ ~audioNodes[c[1]].disposed
    /\ c[2] # Destination => ~audioNodes[c[2]].disposed
    /\ \E t \in DOMAIN effectChains :
         \/ c = <<effectChains[t].output, Destination>>
         \/ c[1] \in ChainNodes(t) /\ c[2] \in ChainNodes(t)

\* C22 witness: the reverb in front of an enabled delay was removed; its node
\* is disposed and the input now feeds the delay
C22_Witness ==
  /\ lastOp.op = "removeEffect" /\ lastOp.ok
  /\ LET chain == effectChains[lastOp.track]
     IN /\ Len(chain.effects) = 1
        /\ objects[chain.effects[1]].type = "delay"
        /\ <<chain.input, chain.toneEffects[1]>> \in connections
        /\ \E n \in DOMAIN audioNodes :
             /\ audioNodes[n].kind = "Freeverb"
             /\ audioNodes[n].disposed
             /\ n < chain.toneEffects[1]

\* the part of the engine state that belongs to track t's chain: the chain
\* record, its entries, its nodes and the connections leaving its nodes
ChainState(e, t) ==
  LET chain == e.chains[t]
      own == {chain.input, chain.output} \cup Range(chain.toneEffects)
  IN [chain |-> chain,
      entries |-> [i \in 1..Len(chain.effects) |-> e.objects[chain.effects[i]]],
      nodes |-> [n \in own |-> e.nodes[n]],
      conn |-> {c \in e.conn : c[1] \in own \/ c[2] \in own}]

\* C25: an operation addressed to one track leaves the chain state of every
\* other track as it was.
C25_OtherTracksUntouched ==
  [][lastOp'.op \in ChainOps =>
       \A u \in DOMAIN effectChains :
         u # lastOp'.track =>
           /\ u \in DOMAIN effectChains'
           /\ ChainState(Engine', u) = ChainState(Engine, u)]_vars

\* C25 witness: an entry was toggled off on one track while the other track
\* holds an entry with the same id, still enabled and still connected
C25_Witness ==
  /\ lastOp.op = "toggleEffect" /\ lastOp.ok
  /\ DOMAIN effectChains = Tracks
  /\ \E u \in Tracks :
       /\ u # lastOp.track
       /\ Len(effectChains[u].effects) = 1
       /\ Len(effectChains[lastOp.track].effects) = 1
       /\ objects[effectChains[u].effects[1]].id
            = objects[effectChains[lastOp.track].effects[1]].id
       /\ objects[effectChains[u].effects[1]].enabled
       /\ ~objects[effectChains[lastOp.track].effects[1]].enabled
       /\ <<effectChains[u].input, effectChains[u].toneEffects[1]>>
            \in connections

\* C26: the backend start is invoked at most once: never are two
\* initialize() calls suspended at `await Tone.start()`, each having invoked
\* it.
C26_StartAtMostOnce == initCalls <= 1

\* C23: after the UI's toggle handler for an entry the chain holds, the
\* entry's flag is the negation of what it was, and the entry's node has an
\* incoming connection exactly when the flag is true.
C23_UIToggleFlips ==
  [][Did("handleToggleEffect", TRUE) =>
     \A id \in EffectIds, first \in BOOLEAN :
       (Present(Engine, lastOp'.track, id)
          /\ HandleToggleEffect(lastOp'.track, id, first)) =>
         LET chain == effectChains[lastOp'.track]
             i == findIndex(Engine, chain.effects, id)
             ref == chain.effects[i]
             node == chain.toneEffects[i]
         IN /\ objects'[ref].enabled = ~objects[ref].enabled
            /\ (\E c \in connections' : c[2] = node) <=> objects'[ref].enabled]_vars

\* the ids of a list of entries, in order
IdsOf(list) == [i \in 1..Len(list) |-> objects[list[i]].id]

\* C24: for every track the UI's list holds the same ids in the same order as
\* the engine's chain (no ids when the track has no chain).
C24_UIListMatchesChain ==
  \A t \in Tracks :
    IdsOf(trackEffects[t])
      = IF t \in DOMAIN effectChains THEN IdsOf(effectChains[t].effects)
        ELSE <<>>

\* the tracks a tick has triggered
FiredTracks(f) == {x[1] : x \in f}

\* the tracks whose cell at a step is on
OnTracks(pat, step) == {t \in Tracks : pat[t][step]}

\* C27 as stated: every tick while playing triggers exactly the tracks whose
\* cell at the current step is on and advances the step to (current + 1) mod
\* gridSize; the step stays below gridSize.
C27_TickFiresOnCells ==
  [][Did("intervalTick", TRUE) =>
       /\ FiredTracks(fired') = OnTracks(pattern, currentStep)
       /\ currentStep' = (currentStep + 1) % gridSize
       /\ currentStep < gridSize /\ currentStep' < gridSize]_vars

\* C27 amended: once the audio engine is initialised a tick triggers exactly
\* the tracks whose cell at the current step is on, and before that none; in
\* both cases it advances the step to (current + 1) mod gridSize, and the step
\* stays below gridSize, so no cell from gridSize on fires.
C27_TickFiresOnCellsOnceInitialized ==
  [][Did("intervalTick", TRUE) =>
       /\ FiredTracks(fired') = IF uiInitialized
                                THEN OnTracks(pattern, currentStep) ELSE {}
       /\ currentStep' = (currentStep + 1) % gridSize
       /\ currentStep < gridSize /\ currentStep' < gridSize]_vars

\* a tick in the short grid that fired a track and wrapped, with a cell
\* beyond the short grid on
C27_Witness ==
  /\ lastOp.op = "intervalTick"
  /\ uiInitialized
  /\ gridSize = GridShort
  /\ currentStep = 0
  /\ fired # {}
  /\ \E t \in Tracks : pattern[t][GridShort]

\* C28: after a switch from the short to the long grid, the steps of the
\* second half are off on every track.
C28_SecondHalfEmptyAfterSwitch ==
  (lastOp.op = "toggleGridSize" /\ gridSize = GridLong) =>
    \A t \in Tracks : \A step \in GridShort..(GridLong - 1) : ~pattern[t][step]

\* C29: every sound a tick triggers is the sound selected for its track at
\* the time of the tick.
C29_TickPlaysSelectedSound ==
  [][Did("intervalTick", TRUE) =>
       \A f \in fired' : f[2] = sounds[f[1]]]_vars

\* C30: whenever playback is stopped the current step is 0.
C30_StoppedAtStepZero == ~isPlaying => currentStep = 0

\* a Stop clicked while another Play click is still waiting for
\* resumeContext()
C30_Witness ==
  /\ lastOp.op = "togglePlay" /\ lastOp.ok
  /\ ~isPlaying
  /\ resumePending > 0

=============================================================================
